---- MODULE Spec2Model ----
(***************************************************************************)
(* Model of src/app.py: the Flask request handlers of the learning         *)
(* platform and the relational store they share.                           *)
(*                                                                         *)
(* Every handler runs in a worker of the hosting server.  A handler is cut *)
(* into steps at its round trips to the store and at the call to the chat  *)
(* completion API, the only places where another worker's request can be   *)
(* served in between.                                                      *)
(*                                                                         *)
(* Values that are not modelled because no handler branches on them:       *)
(* created_at / identified_at timestamps, the 'message' strings of the     *)
(* responses, the KnowledgeGap table (no writer exists), static files.     *)
(* progress is the float 0.0 in the code and the integer 0 here.           *)
(***************************************************************************)
EXTENDS Integers, Sequences, FiniteSets, TLC

VARIABLES
    backend,    \* the engine behind SQLALCHEMY_DATABASE_URI
    api_key,    \* client.api_key is truthy
    learners,   \* rows of table learner
    sessions,   \* rows of table learning_session
    learner_seq,  \* last id handed out for learner.id
    session_seq,  \* last id handed out for learning_session.id
    req,        \* per worker: the request it is serving and the handler's locals
    last,       \* the request answered last, with its answer
    started,    \* number of requests accepted so far
    created,    \* history: per username, number of 201 answers of create_learner
    demo        \* history: outcome of generate_content calls that sent no learner_id

vars == <<backend, api_key, learners, sessions, learner_seq, session_seq,
          req, last, started, created, demo>>

-----------------------------------------------------------------------------
(* Bounds of the model *)

NumWorkers == 2
MaxRequests == 2
MaxSeqRequests == 3
MaxPathId == 2

(* Program constants *)

DefaultLearnerId == 1
TopicMaxLen == 200

Workers == 1..NumWorkers
PathIds == 1..MaxPathId

-----------------------------------------------------------------------------
(* JSON values.  A JSON object is a set of <<key, value>> pairs with        *)
(* distinct keys; JSON null is None.                                       *)

None == "<None>"

HasKey(data, key) == \E p \in data : p[1] = key

\* data[key]; only used where HasKey(data, key)
Item(data, key) == (CHOOSE p \in data : p[1] = key)[2]

\* data.get(key, default)
Get(data, key, default) == IF HasKey(data, key) THEN Item(data, key) ELSE default

-----------------------------------------------------------------------------
(* Store *)

NoLearner == [id |-> 0, username |-> None, learning_goals |-> None,
              experience_level |-> None]

\* variant: the existence check looks up nothing
LearnerByUsername_NoCheck(u) == NoLearner

\* Learner.query.filter_by(username=u).first()
LearnerByUsername(u) ==
    IF \E l \in learners : l.username = u
    THEN CHOOSE l \in learners : l.username = u
    ELSE NoLearner

\* Learner.query.get(id)
LearnerById(id) ==
    IF \E l \in learners : l.id = id
    THEN CHOOSE l \in learners : l.id = id
    ELSE NoLearner

\* variant: "if not learner" never taken
Found_Always(l) == TRUE

\* "if learner" / "if not learner" on the result of a lookup
Found(l) == l # NoLearner

\* The engine draws learner.id / learning_session.id from a counter.  SQLite
\* (the default URI) takes the next rowid only for a row it stores; a
\* PostgreSQL serial column draws nextval before the row is checked, so an
\* INSERT that is rejected still uses up its id.
SeqAfterRejectedInsert(seq) == IF backend = "postgresql" THEN seq + 1 ELSE seq

\* variant: the column is declared without unique=True
UniqueViolation_Off(username) == FALSE

\* unique=True on learner.username
UniqueViolation(username) == \E l \in learners : l.username = username

\* nullable=False on learner.username
NotNullViolation(username) == username = None

\* String(200) on learning_session.topic: SQLite stores any length,
\* PostgreSQL rejects the row
TopicRejected(topic) == backend = "postgresql" /\ Len(topic) > TopicMaxLen

NewLearner(id, username, learning_goals, experience_level) ==
    [id |-> id, username |-> username, learning_goals |-> learning_goals,
     experience_level |-> experience_level]

NewSession(id, learner_id, topic, content, progress) ==
    [id |-> id, learner_id |-> learner_id, topic |-> topic,
     content |-> content, progress |-> progress]

-----------------------------------------------------------------------------
(* Generated text.  A text is the sequence of its parts: the fixed wording  *)
(* of a template (lit), the f-string fields substituted into it (slot), or  *)
(* the text the chat completion API returned (live).                        *)

Lit(name) == [kind |-> "lit", field |-> "", val |-> name]
Slot(field, val) == [kind |-> "slot", field |-> field, val |-> val]
LiveText(text) == <<[kind |-> "live", field |-> "", val |-> text]>>

AITexts == {"lesson text"}

\* create_session, branch taken when client.api_key is empty
SessionNoKeyContent(learner, topic) ==
    << Lit("Welcome to Your Personalized Learning Session"),
       Slot("topic", topic),
       Slot("experience_level", learner.experience_level),
       Slot("learning_goals", learner.learning_goals),
       Slot("learning_goals", learner.learning_goals),
       Slot("experience_level", learner.experience_level),
       Lit("Connect your OpenAI API key") >>

\* create_session, branch taken when the API call raised
SessionErrorContent(learner, topic) ==
    << Lit("Learning Session"),
       Slot("topic", topic),
       Slot("username", learner.username),
       Slot("experience_level", learner.experience_level),
       Slot("learning_goals", learner.learning_goals),
       Slot("topic", topic),
       Lit("Ready to Practice") >>

\* generate_content, branch taken when client.api_key is empty
PracticeNoKeyContent(learner) ==
    << Lit("Personalized Practice Content for"),
       Slot("username", learner.username),
       Slot("experience_level", learner.experience_level),
       Slot("learning_goals", learner.learning_goals),
       Slot("learning_goals", learner.learning_goals),
       Slot("learning_goals", learner.learning_goals),
       Slot("learning_goals", learner.learning_goals),
       Lit("Connect your OpenAI API key") >>

\* generate_content, branch taken when the API call raised
PracticeErrorContent(learner) ==
    << Lit("Personalized Practice Content Generated for"),
       Slot("username", learner.username),
       Slot("experience_level", learner.experience_level),
       Slot("learning_goals", learner.learning_goals),
       Slot("learning_goals", learner.learning_goals),
       Slot("learning_goals", learner.learning_goals),
       Slot("experience_level", learner.experience_level),
       Lit("Ready to level up") >>

-----------------------------------------------------------------------------
(* Requests and responses *)

EmptyResp == [error |-> "", success |-> "absent", id |-> 0, session_id |-> 0,
              username |-> "", learning_goals |-> "", experience_level |-> "",
              topic |-> "", content |-> <<>>, progress |-> 0, list |-> {}]

Idle == [pc |-> "idle", op |-> "none", learner_id |-> 0, json |-> FALSE,
         data |-> {}, learner |-> NoLearner, topic |-> "", content |-> <<>>,
         ai |-> "none", exc |-> "none", status |-> 0, resp |-> EmptyResp]

Request(op, pc, learner_id, json, data) ==
    [Idle EXCEPT !.op = op, !.pc = pc, !.learner_id = learner_id,
                 !.json = json, !.data = data]

LongTopic == "xxxxxxxxxxxxxxxxxxxxxxxxxxxxxxxxxxxxxxxxxxxxxxxxxxxxxxxxxxxxxxxxxxxxxxxxxxxxxxxxxxxxxxxxxxxxxxxxxxxxxxxxxxxxxxxxxxxxxxxxxxxxxxxxxxxxxxxxxxxxxxxxxxxxxxxxxxxxxxxxxxxxxxxxxxxxxxxxxxxxxxxxxxxxxxxxxxxxxxxxx"

CreateLearnerBodies ==
    { {},
      {<<"username", "alice">>},
      {<<"username", "alice">>, <<"learning_goals", "math">>,
       <<"experience_level", "advanced">>},
      {<<"username", "Demo User">>},
      {<<"username", None>>} }

CreateSessionBodies == { {}, {<<"topic", "loops">>}, {<<"topic", LongTopic>>} }

GenerateContentBodies == { {} } \cup { {<<"learner_id", i>>} : i \in PathIds }

UsernameInputs == {"alice", "Demo User", None}

\* the except clause of a handler: log, answer 500
Fail(q, exc, error) ==
    [q EXCEPT !.pc = "done", !.exc = exc, !.status = 500,
              !.resp = [EmptyResp EXCEPT !.error = error]]

Busy(w) == req[w].pc # "idle"

\* the server hands the next request to its first free worker
Accept(w) ==
    /\ ~Busy(w)
    /\ \A v \in Workers : v < w => Busy(v)

\* worker w goes on with q; a handler that has returned frees its worker
Serve(w, q) ==
    IF q.pc = "done"
    THEN req' = [req EXCEPT ![w] = Idle] /\ last' = q
    ELSE req' = [req EXCEPT ![w] = q] /\ last' = last

-----------------------------------------------------------------------------
(* State after the module is loaded: drop_all() and create_all() leave     *)
(* empty tables, the URI and the API key come from the environment.        *)

Init ==
    /\ backend \in {"sqlite", "postgresql"}
    /\ api_key \in BOOLEAN
    /\ learners = {}
    /\ sessions = {}
    /\ learner_seq = 0
    /\ session_seq = 0
    /\ req = [w \in Workers |-> Idle]
    /\ last = Idle
    /\ started = 0
    /\ created = [u \in UsernameInputs |-> 0]
    /\ demo = [created |-> 0, owners |-> {}]

-----------------------------------------------------------------------------
(* POST /api/learners *)

ReceiveCreateLearner(w) ==
    /\ Accept(w)
    /\ \E data \in CreateLearnerBodies :
          Serve(w, Request("create_learner", "cl_check", 0, TRUE, data))
    /\ started' = started + 1
    /\ UNCHANGED <<backend, api_key, learners, sessions, learner_seq,
                   session_seq, created, demo>>

\* get_json(), data['username'], the filter_by(username=...) query
CreateLearnerCheck(w) ==
    LET q == req[w] IN
    /\ q.pc = "cl_check"
    /\ IF ~HasKey(q.data, "username")
       THEN Serve(w, Fail(q, "KeyError", "Failed to create learner"))
       ELSE IF Found(LearnerByUsername(Item(q.data, "username")))
       THEN Serve(w, [q EXCEPT !.pc = "done", !.status = 400,
                        !.resp = [EmptyResp EXCEPT !.error = "Username already exists"]])
       ELSE Serve(w, [q EXCEPT !.pc = "cl_commit"])
    /\ UNCHANGED <<backend, api_key, learners, sessions, learner_seq,
                   session_seq, started, created, demo>>

\* Learner(...), db.session.add, db.session.commit, the 201 answer
CreateLearnerCommit(w) ==
    LET q == req[w]
        username == Item(q.data, "username")
        row == NewLearner(learner_seq + 1, username,
                          Get(q.data, "learning_goals", ""),
                          Get(q.data, "experience_level", "beginner"))
    IN
    /\ q.pc = "cl_commit"
    /\ IF NotNullViolation(username) \/ UniqueViolation(username)
       THEN /\ Serve(w, Fail(q, "IntegrityError", "Failed to create learner"))
            /\ learner_seq' = SeqAfterRejectedInsert(learner_seq)
            /\ UNCHANGED <<learners, created>>
       ELSE /\ learners' = learners \cup {row}
            /\ learner_seq' = row.id
            /\ created' = [created EXCEPT ![username] = @ + 1]
            /\ Serve(w, [q EXCEPT !.pc = "done", !.status = 201,
                           !.resp = [EmptyResp EXCEPT
                                       !.id = row.id,
                                       !.username = row.username,
                                       !.learning_goals = row.learning_goals,
                                       !.experience_level = row.experience_level]])
    /\ UNCHANGED <<backend, api_key, sessions, session_seq, started, demo>>

-----------------------------------------------------------------------------
(* GET /api/learners/<id>/sessions *)

ReceiveGetSessions(w) ==
    /\ Accept(w)
    /\ \E id \in PathIds :
          Serve(w, Request("get_sessions", "gs_query", id, FALSE, {}))
    /\ started' = started + 1
    /\ UNCHANGED <<backend, api_key, learners, sessions, learner_seq,
                   session_seq, created, demo>>

\* one element of the JSON array
SessionJson(s) == [id |-> s.id, topic |-> s.topic, content |-> s.content,
                   progress |-> s.progress]

\* variant: the query without its filter
SessionsOf_All(learner_id) == sessions

\* LearningSession.query.filter_by(learner_id=learner_id).all()
SessionsOf(learner_id) == {s \in sessions : s.learner_id = learner_id}

GetSessions(w) ==
    LET q == req[w] IN
    /\ q.pc = "gs_query"
    /\ Serve(w, [q EXCEPT !.pc = "done", !.status = 200,
                   !.resp = [EmptyResp EXCEPT
                               !.list = {SessionJson(s) : s \in SessionsOf(q.learner_id)}]])
    /\ UNCHANGED <<backend, api_key, learners, sessions, learner_seq,
                   session_seq, started, created, demo>>

-----------------------------------------------------------------------------
(* POST /api/learners/<id>/sessions *)

ReceiveCreateSession(w) ==
    /\ Accept(w)
    /\ \E id \in PathIds, json \in BOOLEAN :
          \E data \in (IF json THEN CreateSessionBodies ELSE {{}}) :
             Serve(w, Request("create_session", "cs_lookup", id, json, data))
    /\ started' = started + 1
    /\ UNCHANGED <<backend, api_key, learners, sessions, learner_seq,
                   session_seq, created, demo>>

\* the inner try of create_session: the text and what became of the API call.
\* With a key the call returns a text or raises, and the except clause
\* substitutes its template; without a key the call is skipped.
SessionTexts(learner, topic) ==
    IF api_key
    THEN {[ai |-> "text", content |-> LiveText(text)] : text \in AITexts}
         \cup {[ai |-> "raised", content |-> SessionErrorContent(learner, topic)]}
    ELSE {[ai |-> "skipped", content |-> SessionNoKeyContent(learner, topic)]}

\* Learner.query.get, the 404 answer, get_json(), data.get('topic', ...),
\* the inner try.  The API call reads and writes nothing shared, so it is
\* one step with the lookup before it.
CreateSessionLookup(w) ==
    LET q == req[w]
        learner == LearnerById(q.learner_id)
        topic == Get(q.data, "topic", "Personalized Learning Session")
    IN
    /\ q.pc = "cs_lookup"
    /\ IF ~Found(learner)
       THEN Serve(w, [q EXCEPT !.pc = "done", !.status = 404,
                        !.resp = [EmptyResp EXCEPT !.error = "Learner not found"]])
       ELSE IF ~q.json
       THEN Serve(w, Fail([q EXCEPT !.learner = learner], "AttributeError",
                          "Failed to create session"))
       ELSE \E g \in SessionTexts(learner, topic) :
               Serve(w, [q EXCEPT !.pc = "cs_commit", !.learner = learner,
                           !.topic = topic, !.ai = g.ai, !.content = g.content])
    /\ UNCHANGED <<backend, api_key, learners, sessions, learner_seq,
                   session_seq, started, created, demo>>

\* LearningSession(...), db.session.add, db.session.commit, the 201 answer
CreateSessionCommit(w) ==
    LET q == req[w]
        row == NewSession(session_seq + 1, q.learner_id, q.topic, q.content, 0)
    IN
    /\ q.pc = "cs_commit"
    /\ IF TopicRejected(q.topic)
       THEN /\ Serve(w, Fail(q, "DataError", "Failed to create session"))
            /\ session_seq' = SeqAfterRejectedInsert(session_seq)
            /\ UNCHANGED sessions
       ELSE /\ sessions' = sessions \cup {row}
            /\ session_seq' = row.id
            /\ Serve(w, [q EXCEPT !.pc = "done", !.status = 201,
                           !.resp = [EmptyResp EXCEPT
                                       !.id = row.id, !.topic = row.topic,
                                       !.content = row.content,
                                       !.progress = row.progress]])
    /\ UNCHANGED <<backend, api_key, learners, learner_seq, started, created, demo>>

-----------------------------------------------------------------------------
(* POST /api/generate-content *)

ReceiveGenerateContent(w) ==
    /\ Accept(w)
    /\ \E json \in BOOLEAN :
          \E data \in (IF json THEN GenerateContentBodies ELSE {{}}) :
             Serve(w, Request("generate_content", "gc_lookup", 0, json, data))
    /\ started' = started + 1
    /\ UNCHANGED <<backend, api_key, learners, sessions, learner_seq,
                   session_seq, created, demo>>

\* the except clause of generate_content
FailGenerate(q, exc) ==
    [q EXCEPT !.pc = "done", !.exc = exc, !.status = 500,
              !.resp = [EmptyResp EXCEPT !.success = "false",
                                         !.error = "Failed to generate content"]]

\* the request names no learner: data.get('learner_id', 1) takes the default
SentNoLearnerId(q) == q.json /\ ~HasKey(q.data, "learner_id")

\* the inner try of generate_content
PracticeTexts(learner) ==
    IF api_key
    THEN {[ai |-> "text", content |-> LiveText(text)] : text \in AITexts}
         \cup {[ai |-> "raised", content |-> PracticeErrorContent(learner)]}
    ELSE {[ai |-> "skipped", content |-> PracticeNoKeyContent(learner)]}

\* get_json(), data.get('learner_id', 1), Learner.query.get; when the
\* learner is found, the inner try
GenerateContentLookup(w) ==
    LET q == req[w]
        learner_id == Get(q.data, "learner_id", DefaultLearnerId)
        learner == LearnerById(learner_id)
    IN
    /\ q.pc = "gc_lookup"
    /\ IF ~q.json
       THEN Serve(w, FailGenerate(q, "AttributeError"))
       ELSE IF Found(learner)
       THEN \E g \in PracticeTexts(learner) :
               Serve(w, [q EXCEPT !.pc = "gc_commit", !.learner_id = learner_id,
                           !.learner = learner, !.ai = g.ai, !.content = g.content])
       ELSE Serve(w, [q EXCEPT !.pc = "gc_create", !.learner_id = learner_id])
    /\ UNCHANGED <<backend, api_key, learners, sessions, learner_seq,
                   session_seq, started, created, demo>>

\* the demo learner of the "if not learner" branch
DemoLearner(id) == NewLearner(id, "Demo User", "General Learning", "intermediate")

\* Learner(username="Demo User", ...), db.session.add, db.session.commit,
\* then the inner try
GenerateContentCreateDemo(w) ==
    LET q == req[w]
        row == DemoLearner(learner_seq + 1)
    IN
    /\ q.pc = "gc_create"
    /\ IF NotNullViolation(row.username) \/ UniqueViolation(row.username)
       THEN /\ Serve(w, FailGenerate(q, "IntegrityError"))
            /\ learner_seq' = SeqAfterRejectedInsert(learner_seq)
            /\ UNCHANGED <<learners, demo>>
       ELSE /\ learners' = learners \cup {row}
            /\ learner_seq' = row.id
            /\ demo' = IF SentNoLearnerId(q)
                       THEN [demo EXCEPT !.created = @ + 1]
                       ELSE demo
            /\ \E g \in PracticeTexts(row) :
                  Serve(w, [q EXCEPT !.pc = "gc_commit", !.learner = row,
                              !.ai = g.ai, !.content = g.content])
    /\ UNCHANGED <<backend, api_key, sessions, session_seq, started, created>>

\* variant: the session is stored under the id the request asked for
PracticeOwner_Requested(q) == q.learner_id

\* learner_id=learner.id of the session generate_content stores
PracticeOwner(q) == q.learner.id

\* LearningSession(...), db.session.add, db.session.commit, the 200 answer
GenerateContentCommit(w) ==
    LET q == req[w]
        row == NewSession(session_seq + 1, PracticeOwner(q),
                          "AI-Generated Practice Content", q.content, 0)
    IN
    /\ q.pc = "gc_commit"
    /\ IF TopicRejected(row.topic)
       THEN /\ Serve(w, FailGenerate(q, "DataError"))
            /\ session_seq' = SeqAfterRejectedInsert(session_seq)
            /\ UNCHANGED <<sessions, demo>>
       ELSE /\ sessions' = sessions \cup {row}
            /\ session_seq' = row.id
            /\ demo' = IF SentNoLearnerId(q)
                       THEN [demo EXCEPT !.owners = @ \cup {row.learner_id}]
                       ELSE demo
            /\ Serve(w, [q EXCEPT !.pc = "done", !.status = 200,
                           !.resp = [EmptyResp EXCEPT
                                       !.success = "true",
                                       !.content = q.content,
                                       !.session_id = row.id]])
    /\ UNCHANGED <<backend, api_key, learners, learner_seq, started, created>>

-----------------------------------------------------------------------------
(* The server.  Under Spec the workers serve requests concurrently; under  *)
(* SeqSpec a request is accepted only when no other is being served.       *)

Receive(w) ==
    \/ ReceiveCreateLearner(w)
    \/ ReceiveGetSessions(w)
    \/ ReceiveCreateSession(w)
    \/ ReceiveGenerateContent(w)

Step(w) ==
    \/ CreateLearnerCheck(w)
    \/ CreateLearnerCommit(w)
    \/ GetSessions(w)
    \/ CreateSessionLookup(w)
    \/ CreateSessionCommit(w)
    \/ GenerateContentLookup(w)
    \/ GenerateContentCreateDemo(w)
    \/ GenerateContentCommit(w)

Next == \E w \in Workers : (started < MaxRequests /\ Receive(w)) \/ Step(w)

Spec == Init /\ [][Next]_vars

NoneBusy == \A w \in Workers : ~Busy(w)

SeqNext ==
    \E w \in Workers :
       (started < MaxSeqRequests /\ NoneBusy /\ Receive(w)) \/ Step(w)

SeqSpec == Init /\ [][SeqNext]_vars

-----------------------------------------------------------------------------
(* Properties *)

\* worker w takes a step
Steps(w) == req'[w] # req[w]

RowsNamed(u) == {l \in learners : l.username = u}

\* C1: handled one after another, a create_learner request whose username
\* is that of a stored Learner is answered 400 'Username already exists'
\* and writes nothing, and the store holds exactly one Learner for every
\* username that create_learner has answered 201 for.
C1_DuplicateRejected ==
    /\ [](\A u \in UsernameInputs :
             created[u] >= 1 => Cardinality(RowsNamed(u)) = 1 /\ created[u] = 1)
    /\ [][\A w \in Workers :
             ( /\ Steps(w)
               /\ req[w].pc = "cl_check"
               /\ HasKey(req[w].data, "username")
               /\ RowsNamed(Item(req[w].data, "username")) # {} )
             => /\ req'[w] = Idle
                /\ last'.status = 400
                /\ last'.resp.error = "Username already exists"
                /\ learners' = learners
                /\ learner_seq' = learner_seq
                /\ created' = created]_vars

C1_Witness ==
    /\ last.op = "create_learner"
    /\ last.status = 400
    /\ created[Item(last.data, "username")] = 1
    /\ Cardinality(RowsNamed(Item(last.data, "username"))) = 1

\* C2: create_session for a learner id that no stored Learner has answers
\* 404, stores no LearningSession and never calls the generator.
C2_UnknownLearner404 ==
    [][\A w \in Workers :
          ( /\ Steps(w)
            /\ req[w].pc = "cs_lookup"
            /\ ~\E l \in learners : l.id = req[w].learner_id )
          => /\ req'[w] = Idle
             /\ last'.op = "create_session"
             /\ last'.status = 404
             /\ last'.ai = "none"
             /\ last'.content = <<>>
             /\ sessions' = sessions
             /\ session_seq' = session_seq]_vars

C2_Witness ==
    /\ last.op = "create_session"
    /\ last.status = 404
    /\ last.ai = "none"
    /\ ~\E l \in learners : l.id = last.learner_id
    /\ ~\E s \in sessions : s.learner_id = last.learner_id

\* C6: under every interleaving of create_learner requests no two stored
\* Learners share a username, at most one request per username is answered
\* 201, and a request that passed the existence check and finds the
\* username taken at its insert is turned down by the store's unique
\* constraint (IntegrityError, 500), not by the check (400).
C6_UniqueUnderRace ==
    /\ [](/\ \A l1, l2 \in learners : l1.username = l2.username => l1 = l2
          /\ \A u \in UsernameInputs : created[u] <= 1)
    /\ [][\A w \in Workers :
             ( /\ Steps(w)
               /\ req[w].pc = "cl_commit"
               /\ RowsNamed(Item(req[w].data, "username")) # {} )
             => /\ last'.exc = "IntegrityError"
                /\ last'.status = 500
                /\ learners' = learners
                /\ created' = created]_vars

C6_Witness ==
    /\ last.op = "create_learner"
    /\ last.exc = "IntegrityError"
    /\ last.status = 500
    /\ HasKey(last.data, "username")
    /\ Item(last.data, "username") # None
    /\ created[Item(last.data, "username")] = 1

\* C10: every stored LearningSession belongs to a stored Learner; a session
\* is stored under the id of the learner its handler looked up or created,
\* and no step removes a Learner.
C10_ReferentialIntegrity ==
    /\ [](\A s \in sessions : \E l \in learners : l.id = s.learner_id)
    /\ [][/\ learners \subseteq learners'
          /\ \A s \in sessions' \ sessions :
                \E w \in Workers :
                   /\ Steps(w)
                   /\ req[w].pc \in {"cs_commit", "gc_commit"}
                   /\ req[w].learner \in learners
                   /\ s.learner_id = req[w].learner.id]_vars

C10_Witness ==
    /\ last.op = "generate_content"
    /\ last.status = 200
    /\ last.learner_id # last.learner.id
    /\ \E s \in sessions : s.id = last.resp.session_id /\ s.learner_id = last.learner.id

\* C5: get_sessions answers 200 with exactly the sessions stored under the
\* id asked for, registered or not, each with the id, topic, content and
\* progress its creating request answered; the array is empty for an id
\* with no sessions and for an id no Learner has.
C5_ListRoundTrip ==
    /\ [](/\ (last.op = "create_session" /\ last.status = 201) =>
                \E s \in sessions :
                   /\ s.learner_id = last.learner_id
                   /\ [id |-> s.id, topic |-> s.topic, content |-> s.content,
                       progress |-> s.progress]
                      = [id |-> last.resp.id, topic |-> last.resp.topic,
                         content |-> last.resp.content,
                         progress |-> last.resp.progress]
          /\ (last.op = "generate_content" /\ last.status = 200) =>
                \E s \in sessions :
                   /\ s.id = last.resp.session_id
                   /\ s.content = last.resp.content)
    /\ [][\A w \in Workers :
             (Steps(w) /\ req[w].pc = "gs_query")
             => /\ req'[w] = Idle
                /\ last'.status = 200
                /\ last'.resp.error = ""
                /\ last'.resp.list =
                      {[id |-> s.id, topic |-> s.topic, content |-> s.content,
                        progress |-> s.progress] :
                         s \in {t \in sessions : t.learner_id = req[w].learner_id}}
                /\ (~\E l \in learners : l.id = req[w].learner_id)
                      => last'.resp.list = {}
                /\ ( /\ last.op = "create_session"
                     /\ last.status = 201
                     /\ last.learner_id = req[w].learner_id )
                      => [id |-> last.resp.id, topic |-> last.resp.topic,
                          content |-> last.resp.content,
                          progress |-> last.resp.progress] \in last'.resp.list
                /\ sessions' = sessions]_vars

C5_Witness ==
    /\ last.op = "get_sessions"
    /\ last.status = 200
    /\ \E e \in last.resp.list : e.topic # "AI-Generated Practice Content"

\* the text has a field of the template filled with val
References(content, field, val) ==
    \E i \in DOMAIN content :
       /\ content[i].kind = "slot"
       /\ content[i].field = field
       /\ content[i].val = val

\* C3: create_session for an existing learner stores one new session with
\* progress 0.0 and answers 201 whatever became of the generator call
\* (text, failure, skipped); it answers 500 only when the write to the
\* store fails.
C3_StatusIgnoresGenerator ==
    (last.op = "create_session" /\ Found(last.learner)) =>
       \/ /\ last.status = 201
          /\ last.ai \in {"text", "raised", "skipped"}
          /\ \E s \in sessions :
                /\ s.id = last.resp.id
                /\ s.learner_id = last.learner.id
                /\ s.progress = 0
       \/ /\ last.status = 500
          /\ last.exc = "DataError"

\* C4: when the content of create_session is not the text of the API (the
\* call failed, or no key is set), the stored text is not empty and refers
\* to the learner's username, learning_goals and experience_level and to
\* the topic.
C4_FallbackReferences ==
    ( /\ last.op = "create_session"
      /\ last.status = 201
      /\ last.ai \in {"raised", "skipped"} ) =>
       \E s \in sessions :
          /\ s.id = last.resp.id
          /\ s.content # <<>>
          /\ References(s.content, "username", last.learner.username)
          /\ References(s.content, "learning_goals", last.learner.learning_goals)
          /\ References(s.content, "experience_level", last.learner.experience_level)
          /\ References(s.content, "topic", last.topic)

\* C7: calls of generate_content that send no learner id create at most one
\* demo learner between them: every such call is answered 200, and all
\* their sessions are stored under one learner id.
C7_DemoLearnerReused ==
    /\ demo.created <= 1
    /\ Cardinality(demo.owners) <= 1
    /\ (last.op = "generate_content" /\ SentNoLearnerId(last)) =>
          /\ last.status = 200
          /\ last.resp.success = "true"
          /\ \E s \in sessions :
                s.id = last.resp.session_id /\ demo.owners = {s.learner_id}

\* C8: a generate_content request whose learner id no stored Learner has,
\* in any state, creates the demo learner with the placeholder profile,
\* stores one session 'AI-Generated Practice Content' under it and answers
\* 200 with the success flag, the content and the session id.
C8_DemoAlwaysCreated ==
    [][\A w \in Workers :
          /\ (Steps(w) /\ req[w].pc = "gc_create") =>
                /\ req'[w].pc = "gc_commit"
                /\ req'[w].learner \in learners' \ learners
                /\ req'[w].learner.username = "Demo User"
                /\ req'[w].learner.learning_goals = "General Learning"
                /\ req'[w].learner.experience_level = "intermediate"
          /\ (Steps(w) /\ req[w].pc = "gc_commit") =>
                /\ last'.status = 200
                /\ last'.resp.success = "true"
                /\ last'.resp.content = req[w].content
                /\ \E s \in sessions' \ sessions :
                      /\ s.id = last'.resp.session_id
                      /\ s.learner_id = req[w].learner.id
                      /\ s.topic = "AI-Generated Practice Content"]_vars

\* C9: a create_learner request whose body has no username is answered
\* with a 4xx status and a reason, and stores no Learner.
C9_MissingUsername4xx ==
    (last.op = "create_learner" /\ ~HasKey(last.data, "username")) =>
       /\ last.status \in 400..499
       /\ last.resp.error # ""

====
